---- MODULE Spec2Model ----
(***************************************************************************)
(* The request pipeline of src/worker.ts: route dispatch, bearer-token     *)
(* verification against the identity provider, schema validation of the    *)
(* request body, the storage statement, and the fetch boundary that turns  *)
(* the chain's outcome into a response.                                    *)
(*                                                                         *)
(* One request is followed from fetch() to the settled promise fetch()     *)
(* returns.  Every suspension point of the chain (the provider call, the   *)
(* read of the provider's body, the read of the request body, the storage  *)
(* call) ends one action; what the environment answers there is drawn      *)
(* from small sets.                                                        *)
(***************************************************************************)
EXTENDS Integers, Sequences, FiniteSets, TLC

VARIABLES
    pc,        \* position of the request: "idle", "idp_fetch", "idp_json", "body", "db", "done"
    request,   \* the Request being handled: method, pathname, Authorization header
    trace,     \* the stages started for this request, in order
    idpReq,    \* tokens sent to the identity provider for this request
    idpRes,    \* the provider's Response while its body is being read
    authCtx,   \* the claims verifyAuth checked and the Date.now() it compared with
    body,      \* what request.json() resolved with
    stmts,     \* statements handed to the storage engine (all() called) for this request
    engine,    \* how the storage engine answered the last queryDB call
    store,     \* the rows the storage engine holds, table by table
    result,    \* how the ResultAsync returned by handler settled
    response,  \* how the promise returned by fetch settled
    seen,      \* a client's note of an earlier GET /meets: the request, the body it got
               \* and the rows stored then
    parked,    \* a second request in flight at a suspension point while the other runs:
               \* the state of its own call of fetch
    js         \* a POST /records request in the responder of worker.js: its position,
               \* the records it read, the one it is at, the store it started from and
               \* the status it answered

\* what worker.ts neither reads nor writes
aux == <<seen, parked, js>>

vars == <<pc, request, trace, idpReq, idpRes, authCtx, body, stmts, engine, store, result,
         response, aux>>

(***************************************************************************)
(* Bounds of the model.                                                    *)
(***************************************************************************)
\* largest exp (seconds since epoch) the provider reports
MaxExp == 2
\* largest number of records in a batch sent to POST /records
MaxBatch == 2
\* rows the storage engine takes before it refuses further inserts
MaxRows == 1

(***************************************************************************)
(* JSON values.  A number is kept as a count of halves, so that 1.5 (a     *)
(* non-integer) and -1 can be told from 1: JNum(h) is the number h/2.      *)
(* DecStr(n) is the string holding the decimal digits of n, as the         *)
(* provider reports iat and exp.                                           *)
(***************************************************************************)
JUndef == [t |-> "undefined"]
JStr(s) == [t |-> "string", s |-> s]
DecStr(n) == [t |-> "string", digits |-> n]
JNum(h) == [t |-> "number", h |-> h]
JObj(f) == [t |-> "object", f |-> f]
JArr(a) == [t |-> "array", a |-> a]

Get(v, k) == IF v.t = "object" /\ k \in DOMAIN v.f THEN v.f[k] ELSE JUndef

IsInt(v) == v.t = "number" /\ v.h % 2 = 0

\* Number(v) of z.coerce.number(): the value in halves, or NaN
NaN == [nan |-> TRUE]
Num(h) == [nan |-> FALSE, h |-> h]
coerceNumber(v) ==
    IF v.t = "number" THEN Num(v.h)
    ELSE IF v.t = "string" /\ "digits" \in DOMAIN v THEN Num(2 * v.digits)
    ELSE NaN

(***************************************************************************)
(* Strings the code inspects character by character are sequences of       *)
(* one-character strings.                                                  *)
(***************************************************************************)
BearerPrefix == <<"B", "e", "a", "r", "e", "r", " ">>

startsWith(s, p) == Len(s) >= Len(p) /\ SubSeq(s, 1, Len(p)) = p

RECURSIVE splitFrom(_, _, _, _)
splitFrom(s, sep, i, cur) ==
    IF i > Len(s) THEN <<cur>>
    ELSE IF s[i] = sep THEN <<cur>> \o splitFrom(s, sep, i + 1, <<>>)
    ELSE splitFrom(s, sep, i + 1, Append(cur, s[i]))

\* String.prototype.split(sep) for a one-character separator
split(s, sep) == splitFrom(s, sep, 1, <<>>)

RECURSIVE join(_, _)
\* Array.prototype.join(sep) on an array of strings
join(parts, sep) ==
    IF Len(parts) = 0 THEN ""
    ELSE IF Len(parts) = 1 THEN parts[1]
    ELSE parts[1] \o sep \o join(Tail(parts), sep)

(***************************************************************************)
(* Configuration and the fixed strings of the source.                      *)
(***************************************************************************)
\* env.GOOGLE_CLIENT_ID
GOOGLE_CLIENT_ID == "client-id"
allowedEmails == {"ryanyun2010@gmail.com"}
GoogleIssuers == {"https://accounts.google.com", "accounts.google.com"}

allowedEvents ==
    {"50_free", "50_back", "50_breast", "50_fly", "100_free", "100_back",
     "100_breast", "100_fly", "200_free", "200_im", "500_free"}

\* strings of this model that z.string().email() accepts
EmailShaped == {"ryanyun2010@gmail.com", "other@example.com"}

(***************************************************************************)
(* The schemas: a shape is the sequence of its keys, in declaration order, *)
(* each with the check that zod applies to it.                             *)
(***************************************************************************)
F(key, check) == [key |-> key, check |-> check]

googleTokenSchema ==
    [kind |-> "object",
     shape |-> << F("iss", "string"), F("aud", "string"), F("sub", "string"),
                  F("email", "email_opt"), F("email_verified", "truefalse_opt"),
                  F("name", "string_opt"), F("picture", "url_opt"),
                  F("iat", "coerce_number"), F("exp", "coerce_number") >>]

meetSchema ==
    [kind |-> "object",
     shape |-> << F("name", "name_min1"), F("location", "location_min1"),
                  F("date", "date_int") >>]

recordSchema ==
    [kind |-> "array",
     shape |-> << F("meet_id", "int"), F("swimmer_id", "int"), F("event", "enum_event"),
                  F("type", "enum_type"), F("start", "enum_start"), F("time", "positive") >>]

swimmerSchema ==
    [kind |-> "object",
     shape |-> << F("name", "name_min1"), F("graduating_year", "int") >>]

relaySchema ==
    [kind |-> "object",
     shape |-> << F("time", "positive"), F("relay_type", "enum_relay"),
                  F("record_1_id", "int"), F("record_2_id", "int"),
                  F("record_3_id", "int"), F("record_4_id", "int") >>]

\* the message of the issue zod raises for value v under a check, "" when it raises none
typeIssue(want, v) ==
    IF v.t = "undefined" THEN "Required" ELSE "Expected " \o want \o ", received " \o v.t

stringIssue(v, minMsg) ==
    IF v.t # "string" THEN typeIssue("string", v)
    ELSE IF "s" \in DOMAIN v /\ v.s = "" THEN minMsg
    ELSE ""

intIssue(v, msg) ==
    IF v.t # "number" THEN typeIssue("number", v)
    ELSE IF ~IsInt(v) THEN msg
    ELSE ""

\* a positive() that lets zero through
positiveIssueNonNegative(v) ==
    IF v.t # "number" THEN typeIssue("number", v)
    ELSE IF v.h >= 0 THEN ""
    ELSE "Number must be greater than 0"

positiveIssue(v) ==
    IF v.t # "number" THEN typeIssue("number", v)
    ELSE IF v.h > 0 THEN ""
    ELSE "Number must be greater than 0"

enumIssue(v, values) ==
    IF v.t = "undefined" THEN "Required"
    ELSE IF v.t = "string" /\ "s" \in DOMAIN v /\ v.s \in values THEN ""
    ELSE "Invalid enum value"

optional(v, issue) == IF v.t = "undefined" THEN "" ELSE issue

checkIssue(check, v) ==
    CASE check = "string" -> stringIssue(v, "")
      [] check = "string_opt" -> optional(v, stringIssue(v, ""))
      [] check = "name_min1" -> stringIssue(v, "Name is required")
      [] check = "location_min1" -> stringIssue(v, "Location is required")
      [] check = "date_int" -> intIssue(v, "Date must be an integer")
      [] check = "int" -> intIssue(v, "Expected integer, received float")
      [] check = "positive" -> positiveIssue(v)
      [] check = "enum_event" -> enumIssue(v, allowedEvents)
      [] check = "enum_type" -> enumIssue(v, {"individual", "relay"})
      [] check = "enum_start" -> enumIssue(v, {"flat", "relay"})
      [] check = "enum_relay" -> enumIssue(v, {"200_mr", "200_fr", "400_fr"})
      [] check = "truefalse_opt" -> optional(v, enumIssue(v, {"true", "false"}))
      [] check = "email_opt" ->
            optional(v, IF v.t # "string" THEN typeIssue("string", v)
                        ELSE IF "s" \in DOMAIN v /\ v.s \in EmailShaped THEN ""
                        ELSE "Invalid email")
      [] check = "url_opt" ->
            optional(v, IF v.t # "string" THEN typeIssue("string", v) ELSE "")
      [] check = "coerce_number" ->
            IF coerceNumber(v).nan THEN "Expected number, received nan" ELSE ""

\* the value a check hands on when it raises no issue
checkData(check, v) ==
    IF check = "coerce_number" THEN JNum(coerceNumber(v).h) ELSE v

\* a validation that stops at the first key that raises an issue
RECURSIVE shapeIssuesFirstOnly(_, _, _)
shapeIssuesFirstOnly(shape, v, prefix) ==
    IF Len(shape) = 0 THEN <<>>
    ELSE LET m == checkIssue(Head(shape).check, Get(v, Head(shape).key))
         IN  IF m = "" THEN shapeIssuesFirstOnly(Tail(shape), v, prefix)
             ELSE <<prefix \o Head(shape).key \o ": " \o m>>

\* the issues of an object against a shape, as "path: message", keys in shape order
RECURSIVE shapeIssues(_, _, _)
shapeIssues(shape, v, prefix) ==
    IF Len(shape) = 0 THEN <<>>
    ELSE LET m == checkIssue(Head(shape).check, Get(v, Head(shape).key))
             rest == shapeIssues(Tail(shape), v, prefix)
         IN  IF m = "" THEN rest
             ELSE <<prefix \o Head(shape).key \o ": " \o m>> \o rest

objectIssues(shape, v, prefix, path) ==
    IF v.t # "object" THEN <<path \o ": " \o typeIssue("object", v)>>
    ELSE shapeIssues(shape, v, prefix)

RECURSIVE elementIssues(_, _, _)
elementIssues(shape, a, i) ==
    IF i > Len(a) THEN <<>>
    ELSE objectIssues(shape, a[i], ToString(i - 1) \o ".", ToString(i - 1))
            \o elementIssues(shape, a, i + 1)

\* an array schema that asks for at least one element
issuesOfNonEmpty(schema, json) ==
    IF schema.kind = "object" THEN objectIssues(schema.shape, json, "", "")
    ELSE IF json.t # "array" THEN <<": " \o typeIssue("array", json)>>
    ELSE IF Len(json.a) = 0 THEN <<": Array must contain at least 1 element(s)">>
    ELSE elementIssues(schema.shape, json.a, 1)

\* schema.safeParse(json).error.issues, already rendered by zodErrorToHumanReadable's map
issuesOf(schema, json) ==
    IF schema.kind = "object" THEN objectIssues(schema.shape, json, "", "")
    ELSE IF json.t # "array" THEN <<": " \o typeIssue("array", json)>>
    ELSE elementIssues(schema.shape, json.a, 1)

zodErrorToHumanReadable(issues) == join(issues, "; ")

objectData(shape, v) ==
    JObj([k \in {shape[i].key : i \in 1..Len(shape)} |->
            LET i == CHOOSE j \in 1..Len(shape) : shape[j].key = k
            IN  checkData(shape[i].check, Get(v, k))])

dataOf(schema, json) ==
    IF schema.kind = "object" THEN objectData(schema.shape, json)
    ELSE JArr([i \in 1..Len(json.a) |-> objectData(schema.shape, json.a[i])])

\* zodParseWith(schema, errFunc)(json), errFunc left to the caller
zodParseWith(schema, json) ==
    LET issues == issuesOf(schema, json)
    IN  IF Len(issues) > 0
        THEN [success |-> FALSE, msg |-> zodErrorToHumanReadable(issues)]
        ELSE [success |-> TRUE, data |-> dataOf(schema, json)]

(***************************************************************************)
(* Results, errors and responses.                                          *)
(***************************************************************************)
Pending == [tag |-> "pending"]
Ok(v) == [tag |-> "ok", value |-> v]
Err(name, message) == [tag |-> "err", name |-> name, message |-> message]
\* an exception that left the Result: the promise inside the ResultAsync rejected,
\* or handler itself threw
Rejected == [tag |-> "rejected"]

\* error.status of the classes of ./errors
ErrStatus(name) ==
    CASE name = "MalformedRequest" -> {400}
      [] name = "Unauthorized" -> {401}
      [] name = "NotFound" -> {404}
      [] name = "NoResponse" -> {502, 503}
      [] name = "MalformedResponse" -> {502}
      [] name = "InternalDatabase" -> {500}

NoHeaders == {}
JsonHeaders == {<<"Content-Type", "application/json">>}
CorsHeaders ==
    {<<"Access-Control-Allow-Origin", "https://nuevaswimming.pages.dev">>,
     <<"Access-Control-Allow-Methods", "GET, POST, OPTIONS">>,
     <<"Access-Control-Allow-Headers", "Content-Type, Authorization">>}

\* new Response(body, {status, headers})
Response(status, bodyOf, headers) ==
    [isResponse |-> TRUE, status |-> status, body |-> bodyOf, headers |-> headers]
Text(s) == [kind |-> "text", text |-> s]
Json(v) == [kind |-> "json", json |-> v]
NoBody == [kind |-> "null"]

\* what all() resolves with: the engine's result object { results, success, meta },
\* which is not a Response
D1Result(rows, duration) ==
    [isResponse |-> FALSE, success |-> TRUE, results |-> JArr(rows),
     meta |-> [duration |-> duration]]

returnJSONResponse(data) == Response(200, Json(data), JsonHeaders)

\* how the promise returned by fetch settles
Fulfilled(r) == [settled |-> "fulfilled", status |-> r.status, body |-> r.body,
                 headers |-> r.headers]
Thrown == [settled |-> "rejected"]
Unsettled == [settled |-> "no"]

\* withCors(response): response.headers.set three times; a value without headers
\* makes the first set throw
withCors(v) ==
    IF v.isResponse
    THEN Fulfilled([v EXCEPT !.headers =
            {h \in v.headers : h[1] \notin {c[1] : c \in CorsHeaders}} \cup CorsHeaders])
    ELSE Thrown

\* handler(request, env).match(ok, err) of fetch: the settlements fetch can end in
boundary(res) ==
    CASE res.tag = "ok" -> {withCors(res.value)}
      [] res.tag = "err" ->
            {withCors(Response(st, Text(res.name \o ": " \o res.message), NoHeaders)) :
                st \in ErrStatus(res.name)}
      [] res.tag = "rejected" -> {Thrown}

(***************************************************************************)
(* The route table.                                                        *)
(***************************************************************************)
NoSchema == [kind |-> "none", shape |-> <<>>]

Read(sql) ==
    [auth |-> FALSE, schema |-> NoSchema, sql |-> sql, values |-> "", binds |-> <<>>,
     zodMsg |-> "",
     dbMsg |-> "Failed to query database: ", map |-> "json", okText |-> ""]
Write(schema, sql, values, binds, zodMsg, dbMsg, map, okText) ==
    [auth |-> TRUE, schema |-> schema, sql |-> sql, values |-> values, binds |-> binds,
     zodMsg |-> zodMsg, dbMsg |-> dbMsg, map |-> map, okText |-> okText]

routes ==
    ("GET /" :> Read("SELECT records JOIN meets JOIN swimmers ORDER BY m.date DESC, r.time ASC"))
 @@ ("GET /meets" :> Read("SELECT meets ORDER BY date DESC"))
 @@ ("POST /meets" :>
        Write(meetSchema, "INSERT INTO meets (name, location, date)", "(?, ?, ?)",
              <<"name", "location", "date">>,
              "Given invalid meet data: ", "Meet database insertion failed: ", "none", ""))
 @@ ("GET /records" :> Read("SELECT records ORDER BY id DESC"))
 @@ ("POST /records" :>
        Write(recordSchema, "INSERT INTO records (meet_id, swimmer_id, event, type, time, start)",
              "${placeholders}",
              <<"meet_id", "swimmer_id", "event", "type", "time", "start">>,
              "Given invalid record data: ", "Records database insertion failed: ",
              "created", "Records sucessfully added"))
 @@ ("GET /swimmers" :> Read("SELECT swimmers ORDER BY id ASC"))
 @@ ("POST /swimmers" :>
        Write(swimmerSchema, "INSERT INTO swimmers (name, graduating_year)", "(?, ?)",
              <<"name", "graduating_year">>,
              "Given invalid swimmer data: ", "Swimmers database insertion failed: ",
              "created", "Swimmer added"))
 @@ ("GET /recent_meets" :> Read("SELECT meets ORDER BY date DESC LIMIT 5"))
 @@ ("POST /verify" :> Write(NoSchema, "", "", <<>>, "", "", "verify", ""))
 @@ ("POST /relays" :>
        Write(relaySchema,
              "INSERT INTO relays (time, type, record_1_id, record_2_id, record_3_id, record_4_id)",
              "(?, ?, ?, ?, ?, ?)",
              <<"time", "relay_type", "record_1_id", "record_2_id", "record_3_id", "record_4_id">>,
              "Given invalid relay data: ", "Relays database insertion failed: ",
              "created", "Relay added"))

\* a key that drops the trailing slash of the path
keyOfTrimSlash(req) ==
    req.method \o " " \o (IF req.path = "/meets/" THEN "/meets" ELSE req.path)

\* `${request.method} ${url.pathname}`
keyOf(req) == req.method \o " " \o req.path

\* a dispatch that looks the key up before it answers the preflight
dispatchLookupFirst(req) ==
    IF keyOf(req) \notin DOMAIN routes THEN "notfound"
    ELSE IF req.method = "OPTIONS" THEN "preflight"
    ELSE "route"

\* what handler does with a request: answer the preflight, or look the key up in the
\* table and call the route or answer NotFound
dispatch(req) ==
    IF req.method = "OPTIONS" THEN "preflight"
    ELSE IF keyOf(req) \notin DOMAIN routes THEN "notfound"
    ELSE "route"

\* json.map(() => "(?, ?, ?, ?, ?, ?)"): one value group a record
valueGroups(a) == [i \in 1..Len(a) |-> "(?, ?, ?, ?, ?, ?)"]

RECURSIVE flatMap(_, _)
flatMap(a, cols) ==
    IF Len(a) = 0 THEN <<>>
    ELSE [i \in 1..Len(cols) |-> Get(Head(a), cols[i])] \o flatMap(Tail(a), cols)

\* a statement whose parameters follow the order of the schema's keys
statementOfSchemaOrder(key, data) ==
    LET cols == [i \in 1..Len(routes[key].schema.shape) |-> routes[key].schema.shape[i].key]
    IN  IF routes[key].schema.kind = "array"
        THEN [sql |-> routes[key].sql, values |-> join(valueGroups(data.a), ", "),
              groups |-> Len(data.a), binds |-> flatMap(data.a, cols)]
        ELSE IF routes[key].schema.kind = "object"
        THEN [sql |-> routes[key].sql, values |-> routes[key].values, groups |-> 1,
              binds |-> [i \in 1..Len(cols) |-> Get(data, cols[i])]]
        ELSE [sql |-> routes[key].sql, values |-> "", groups |-> 0, binds |-> <<>>]

\* the statement a route hands to queryDB for validated data: its text, the text after
\* VALUES, the number of value groups and the bound parameters
statementOf(key, data) ==
    LET cols == routes[key].binds
    IN  IF routes[key].schema.kind = "array"
        THEN [sql |-> routes[key].sql, values |-> join(valueGroups(data.a), ", "),
              groups |-> Len(data.a), binds |-> flatMap(data.a, cols)]
        ELSE IF routes[key].schema.kind = "object"
        THEN [sql |-> routes[key].sql, values |-> routes[key].values, groups |-> 1,
              binds |-> [i \in 1..Len(cols) |-> Get(data, cols[i])]]
        ELSE [sql |-> routes[key].sql, values |-> "", groups |-> 0, binds |-> <<>>]

(***************************************************************************)
(* The storage engine: the tables the statements of the route table read  *)
(* and write.                                                              *)
(***************************************************************************)
Tables == {"meets", "swimmers", "records", "relays"}

\* the table each statement names after FROM or INTO ("GET /" joins the other two to
\* records)
tableOf ==
    ("GET /" :> "records") @@ ("GET /meets" :> "meets") @@ ("POST /meets" :> "meets")
 @@ ("GET /records" :> "records") @@ ("POST /records" :> "records")
 @@ ("GET /swimmers" :> "swimmers") @@ ("POST /swimmers" :> "swimmers")
 @@ ("GET /recent_meets" :> "meets") @@ ("POST /relays" :> "relays")

\* the column lists of the INSERT statements
columnsOf ==
    [meets |-> <<"name", "location", "date">>,
     swimmers |-> <<"name", "graduating_year">>,
     records |-> <<"meet_id", "swimmer_id", "event", "type", "time", "start">>,
     relays |-> <<"time", "type", "record_1_id", "record_2_id", "record_3_id",
                  "record_4_id">>]

EmptyStore == [t \in Tables |-> <<>>]

rowCount(s) ==
    Len(s["meets"]) + Len(s["swimmers"]) + Len(s["records"]) + Len(s["relays"])

\* a stored row: the id the engine assigns and the bound values under the column names
row(id, cols, vals) ==
    JObj([c \in {"id"} \cup {cols[i] : i \in 1..Len(cols)} |->
            IF c = "id" THEN JNum(2 * id)
            ELSE vals[CHOOSE i \in 1..Len(cols) : cols[i] = c]])

\* INSERT INTO table (columns) VALUES group, group, ...: one row a value group, all of
\* them or none
insert(s, table, stmt) ==
    LET cols == columnsOf[table]
        n == Len(cols)
        old == s[table]
    IN  [s EXCEPT ![table] =
            old \o [i \in 1..stmt.groups |->
                        row(Len(old) + i, cols, SubSeq(stmt.binds, (i - 1) * n + 1, i * n))]]

\* the order of two sort keys, column by column
lexLess(a, b) ==
    \E k \in 1..Len(a) : a[k] < b[k] /\ \A j \in 1..(k - 1) : a[j] = b[j]

\* ORDER BY: rows in ascending order of their sort keys, rows with equal keys in the
\* order of their ids
orderBy(rows, keys) ==
    LET n == Len(rows)
        p == CHOOSE q \in [1..n -> 1..n] :
                \A i, j \in 1..n :
                    i < j => \/ lexLess(keys[q[i]], keys[q[j]])
                             \/ (~lexLess(keys[q[j]], keys[q[i]]) /\ q[i] < q[j])
    IN  [i \in 1..n |-> rows[p[i]]]

\* the sort keys of the ORDER BY clauses; DESC is the negated value
dateDesc(rows) == [i \in 1..Len(rows) |-> <<0 - rows[i].f["date"].h>>]
idDesc(rows) == [i \in 1..Len(rows) |-> <<0 - rows[i].f["id"].h>>]
idAsc(rows) == [i \in 1..Len(rows) |-> <<rows[i].f["id"].h>>]
meetDateDescTimeAsc(rows) ==
    [i \in 1..Len(rows) |-> <<0 - rows[i].f["meet_date"].h, rows[i].f["time"].h>>]

\* FROM records r JOIN meets m ON r.meet_id = m.id JOIN swimmers s ON r.swimmer_id = s.id
joined(s) ==
    LET has(r) == /\ \E i \in 1..Len(s["meets"]) : s["meets"][i].f["id"] = r.f["meet_id"]
                  /\ \E i \in 1..Len(s["swimmers"]) :
                        s["swimmers"][i].f["id"] = r.f["swimmer_id"]
        rs == SelectSeq(s["records"], has)
        m(r) == s["meets"][CHOOSE i \in 1..Len(s["meets"]) :
                                s["meets"][i].f["id"] = r.f["meet_id"]]
        w(r) == s["swimmers"][CHOOSE i \in 1..Len(s["swimmers"]) :
                                s["swimmers"][i].f["id"] = r.f["swimmer_id"]]
    IN  [i \in 1..Len(rs) |->
            JObj([id |-> rs[i].f["id"], swimmer_id |-> rs[i].f["swimmer_id"],
                  event |-> rs[i].f["event"], type |-> rs[i].f["type"],
                  time |-> rs[i].f["time"], start |-> rs[i].f["start"],
                  meet_name |-> m(rs[i]).f["name"],
                  meet_location |-> m(rs[i]).f["location"],
                  meet_date |-> m(rs[i]).f["date"],
                  swimmer_name |-> w(rs[i]).f["name"],
                  swimmer_year |-> w(rs[i]).f["graduating_year"]])]

limit(rows, n) == SubSeq(rows, 1, IF Len(rows) < n THEN Len(rows) ELSE n)

\* the rows each SELECT of the route table returns
select(key, s) ==
    IF key = "GET /" THEN orderBy(joined(s), meetDateDescTimeAsc(joined(s)))
    ELSE IF key = "GET /meets" THEN orderBy(s["meets"], dateDesc(s["meets"]))
    ELSE IF key = "GET /records" THEN orderBy(s["records"], idDesc(s["records"]))
    ELSE IF key = "GET /swimmers" THEN orderBy(s["swimmers"], idAsc(s["swimmers"]))
    ELSE limit(orderBy(s["meets"], dateDesc(s["meets"])), 5)

\* meta.duration of a result: what the engine measured for this execution
Durations == {1, 2}

(***************************************************************************)
(* What the environment can send and answer.                               *)
(***************************************************************************)
Methods == {"GET", "POST", "OPTIONS", "DELETE"}
Paths == {"/", "/meets", "/recent_meets", "/records", "/swimmers", "/verify", "/relays",
          "/meets/", "/Meets", "/nope"}

\* request.headers.get("Authorization"): null, or the header's characters
NoHeader == [present |-> FALSE, chars |-> <<>>]
Header(chars) == [present |-> TRUE, chars |-> chars]
AuthHeaders ==
    {NoHeader,
     Header(<<"B", "a", "s", "i", "c", " ", "x">>),
     Header(<<"B", "e", "a", "r", "e", "r">>),
     Header(<<"B", "e", "a", "r", "e", "r", " ">>),
     Header(<<"B", "e", "a", "r", "e", "r", " ", "t">>),
     Header(<<"B", "e", "a", "r", "e", "r", " ", "t", " ", "u">>)}

Requests == [method : Methods, path : Paths, auth : AuthHeaders]

\* the provider's answer to the fetch: a network failure, or a Response with a status
IdpStatuses == {200, 400}
IsOk(status) == status \in 200..299

\* the body of the provider's Response: not JSON, or a JSON object of claims
NotJSON == [t |-> "notjson"]
IdpPayloads ==
    {JObj([iss |-> iss, aud |-> aud, sub |-> JStr("1234"), email |-> email,
           email_verified |-> ev, iat |-> DecStr(0), exp |-> exp]) :
        iss \in {JStr("https://accounts.google.com"), JStr("accounts.google.com"),
                 JStr("evil.example"), JUndef},
        aud \in {JStr(GOOGLE_CLIENT_ID), JStr("other-client")},
        email \in {JStr("ryanyun2010@gmail.com"), JStr("other@example.com"),
                   JStr("not-an-email"), JUndef},
        ev \in {JStr("true"), JStr("false"), JStr("yes"), JUndef},
        exp \in {DecStr(n) : n \in 1..MaxExp} \cup {JStr("soon")}}

\* Date.now() in milliseconds, around the instants the reported exp name
Nows == {k * 1000 + d : k \in 1..MaxExp, d \in {-1, 0, 1}}

\* request bodies
okRecord ==
    JObj([meet_id |-> JNum(2), swimmer_id |-> JNum(2), event |-> JStr("50_free"),
          type |-> JStr("individual"), start |-> JStr("flat"), time |-> JNum(51)])
okRecord2 ==
    JObj([meet_id |-> JNum(4), swimmer_id |-> JNum(6), event |-> JStr("100_fly"),
          type |-> JStr("relay"), start |-> JStr("relay"), time |-> JNum(121)])
RecordElems ==
    {okRecord, okRecord2,
     [okRecord EXCEPT !.f.time = JNum(-2)],
     [okRecord EXCEPT !.f.swimmer_id = JNum(4), !.f.start = JStr("relay"), !.f.time = JNum(0)]}
RecordBodies == {JArr(a) : a \in UNION {[1..n -> RecordElems] : n \in 0..MaxBatch}}

okMeet == JObj([name |-> JStr("Champs"), location |-> JStr("Pool"), date |-> JNum(40)])
MeetBodies ==
    {okMeet,
     [okMeet EXCEPT !.f.name = JStr("")],
     [okMeet EXCEPT !.f.name = JStr(""), !.f.date = JNum(41)]}

okSwimmer == JObj([name |-> JStr("Ada"), graduating_year |-> JNum(4052)])
SwimmerBodies == {okSwimmer, [okSwimmer EXCEPT !.f.graduating_year = JStr("2026")]}

okRelay ==
    JObj([time |-> JNum(201), relay_type |-> JStr("200_fr"), record_1_id |-> JNum(2),
          record_2_id |-> JNum(4), record_3_id |-> JNum(6), record_4_id |-> JNum(8)])
RelayBodies == {okRelay, [okRelay EXCEPT !.f.relay_type = JStr("800_fr")]}

Bodies == RecordBodies \cup MeetBodies \cup SwimmerBodies \cup RelayBodies

\* the storage engine at prepare(query).bind(...binds): either call may throw, or the
\* statement is handed over and all() returns a promise
SyncOutcomes == {"prepare_throws", "bind_throws", "issued"}
\* the promise all() returned
AsyncOutcomes == {"rejects", "resolves"}

(***************************************************************************)
(* verifyAuth.                                                             *)
(***************************************************************************)
\* a header check that takes any Authorization header for a bearer token
hasBearerAnyHeader(h) == h.present

\* authHeader?.startsWith("Bearer ")
hasBearer(h) == h.present /\ startsWith(h.chars, BearerPrefix)

\* authHeader.split(" ")[1], as the template literal renders it: element 1 of the
\* parts, or "undefined" when there is none
tokenOf(h) ==
    LET parts == split(h.chars, " ")
    IN  IF Len(parts) >= 2 THEN parts[2]
        ELSE <<"u", "n", "d", "e", "f", "i", "n", "e", "d">>

\* exp * 1000, exp held in halves
expMillis(payload) == Get(payload, "exp").h * 500

\* payload.exp * 1000 < Date.now()
expired(payload, now) == expMillis(payload) < now

\* the business checks on the validated payload: the message of the Unauthorized they
\* end in, or "" when they all pass
businessChecks(payload, now) ==
    IF Get(payload, "aud") # JStr(GOOGLE_CLIENT_ID)
        THEN "Authorization Token gave Incorrect Audience"
    ELSE IF Get(payload, "email_verified") # JStr("true")
        THEN "Authentication Token gave an Email which could not be verified"
    ELSE IF Get(payload, "email").t = "undefined"
        THEN "Authentication Token did not correspond to an Email"
    ELSE IF Get(payload, "iss").s \notin GoogleIssuers
        THEN "Invalid token issuer"
    ELSE IF expired(payload, now)
        THEN "Token expired"
    ELSE IF Get(payload, "email").s \notin allowedEmails
        THEN "Email is unauthorized"
    ELSE ""

\* the chain after res.json() resolved with json: zodParseWith(googleTokenSchema), then
\* the business checks
\* Date.now() is evaluated only when the four checks ahead of the expiry comparison pass
readsClock(payload) ==
    /\ Get(payload, "aud") = JStr(GOOGLE_CLIENT_ID)
    /\ Get(payload, "email_verified") = JStr("true")
    /\ Get(payload, "email").t # "undefined"
    /\ Get(payload, "iss").s \in GoogleIssuers

verifyClaims(json, now) ==
    LET parsed == zodParseWith(googleTokenSchema, json)
    IN  IF ~parsed.success
        THEN Err("MalformedResponse", "Recivied invalid Google token payload: " \o parsed.msg)
        ELSE IF businessChecks(parsed.data, now) # ""
        THEN Err("Unauthorized", businessChecks(parsed.data, now))
        ELSE Ok(Get(parsed.data, "email").s)

(***************************************************************************)
(* The state machine.                                                      *)
(***************************************************************************)
NoRequest == [method |-> "", path |-> "", auth |-> NoHeader]
NoIdpRes == [arrived |-> FALSE]
NoAuthCtx == [checked |-> FALSE]
NoBodyRead == [read |-> FALSE]
NotSeen == [valid |-> FALSE]
NotStarted ==
    [pc |-> "idle", request |-> NoRequest, trace |-> <<>>, idpReq |-> <<>>,
     idpRes |-> NoIdpRes, authCtx |-> NoAuthCtx, body |-> NoBodyRead, stmts |-> <<>>,
     engine |-> "idle", result |-> Pending, response |-> Unsettled]
JsIdle == [pc |-> "idle", records |-> <<>>, i |-> 0, base |-> EmptyStore, status |-> 0]

Init ==
    /\ pc = "idle"
    /\ request = NoRequest
    /\ trace = <<>>
    /\ idpReq = <<>>
    /\ idpRes = NoIdpRes
    /\ authCtx = NoAuthCtx
    /\ body = NoBodyRead
    /\ stmts = <<>>
    /\ engine = "idle"
    /\ store = EmptyStore
    /\ seen = NotSeen
    /\ js = JsIdle
    /\ parked = NotStarted
    /\ result = Pending
    /\ response = Unsettled

\* the ResultAsync of handler settles with res, and fetch's match renders it
Settle(res) ==
    /\ pc' = "done"
    /\ result' = res
    /\ response' \in boundary(res)

\* fetch(request, env) up to the first suspension point: handler's OPTIONS answer, the
\* route lookup and the synchronous part of the route
Receive(req) ==
    /\ pc = "idle"
    /\ request' = req
    /\ IF dispatch(req) = "preflight"
       THEN /\ Settle(Ok(Response(204, NoBody, NoHeaders)))
            /\ UNCHANGED <<trace, idpReq, stmts, engine>>
       ELSE IF dispatch(req) = "notfound"
       THEN /\ Settle(Err("NotFound", "Endpoint \"" \o keyOf(req) \o "\" not found"))
            /\ UNCHANGED <<trace, idpReq, stmts, engine>>
       ELSE IF ~routes[keyOf(req)].auth
       THEN /\ \E o \in SyncOutcomes :
                /\ trace' = <<"storage">>
                /\ IF o = "issued"
                   THEN /\ stmts' = <<statementOf(keyOf(req), JUndef)>>
                        /\ engine' = "pending"
                        /\ pc' = "db"
                        /\ UNCHANGED <<result, response>>
                   ELSE /\ engine' = o
                        /\ Settle(Rejected)
                        /\ UNCHANGED stmts
            /\ UNCHANGED idpReq
       ELSE IF ~hasBearer(req.auth)
       THEN /\ Settle(Err("Unauthorized", "No Authorization header"))
            /\ UNCHANGED <<trace, idpReq, stmts, engine>>
       ELSE /\ trace' = <<"idp">>
            /\ idpReq' = <<tokenOf(req.auth)>>
            /\ pc' = "idp_fetch"
            /\ UNCHANGED <<result, response, stmts, engine>>
    /\ UNCHANGED <<idpRes, authCtx, body, store, aux>>

\* the promise of fetch(tokeninfo) settles: a rejection is NoResponse, any Response
\* goes on to res.json()
IdpFetch ==
    /\ pc = "idp_fetch"
    /\ \/ /\ Settle(Err("NoResponse",
                        "Failed to fetch Authentication Token info from Google: <e>"))
          /\ UNCHANGED idpRes
       \/ \E st \in IdpStatuses :
            /\ idpRes' = [arrived |-> TRUE, status |-> st, ok |-> IsOk(st)]
            /\ pc' = "idp_json"
            /\ UNCHANGED <<result, response>>
    /\ UNCHANGED <<request, trace, idpReq, authCtx, body, stmts, engine, store, aux>>

\* the promise of res.json() settles; on a JSON body the claims are validated and
\* checked, and the route goes on: POST /verify answers, the others call request.json()
IdpJson ==
    /\ pc = "idp_json"
    /\ \E json \in IdpPayloads \cup {NotJSON} :
        IF json = NotJSON
        THEN /\ Settle(Err("MalformedResponse",
                "Failed to parse Authentication Token info JSON recieved from Google: <e>"))
             /\ UNCHANGED <<authCtx, trace>>
        ELSE LET parsed == zodParseWith(googleTokenSchema, json)
                 clock == IF parsed.success /\ readsClock(parsed.data) THEN Nows ELSE {0}
             IN  \E now \in clock :
                 LET verified == verifyClaims(json, now)
                 IN  /\ authCtx' = IF parsed.success
                                   THEN [checked |-> TRUE, payload |-> parsed.data,
                                         now |-> now]
                                   ELSE NoAuthCtx
                     /\ IF verified.tag = "err"
                        THEN Settle(verified) /\ UNCHANGED trace
                        ELSE IF routes[keyOf(request)].map = "verify"
                        THEN /\ Settle(Ok(Response(200,
                                    Json([allowed |-> TRUE, email |-> verified.value]),
                                    JsonHeaders)))
                             /\ UNCHANGED trace
                        ELSE /\ trace' = Append(trace, "body")
                             /\ pc' = "body"
                             /\ UNCHANGED <<result, response>>
    /\ UNCHANGED <<request, idpReq, idpRes, body, stmts, engine, store, aux>>

\* the promise of request.json() settles; a JSON body is validated against the route's
\* schema and, when valid, the route builds its statement and calls queryDB
BodyRead ==
    /\ pc = "body"
    /\ \E json \in Bodies \cup {NotJSON} :
        IF json = NotJSON
        THEN /\ body' = [read |-> TRUE, isJson |-> FALSE]
             /\ Settle(Err("MalformedRequest", "Failed to parse request JSON: <e>"))
             /\ UNCHANGED <<trace, stmts, engine>>
        ELSE LET route == routes[keyOf(request)]
                 parsed == zodParseWith(route.schema, json)
             IN  /\ body' = [read |-> TRUE, isJson |-> TRUE, json |-> json]
                 /\ IF ~parsed.success
                    THEN /\ Settle(Err("MalformedRequest", route.zodMsg \o parsed.msg))
                         /\ trace' = Append(trace, "validate")
                         /\ UNCHANGED <<stmts, engine>>
                    ELSE \E o \in SyncOutcomes :
                         /\ trace' = trace \o <<"validate", "storage">>
                         /\ IF o = "issued"
                            THEN /\ stmts' = Append(stmts, statementOf(keyOf(request), parsed.data))
                                 /\ engine' = "pending"
                                 /\ pc' = "db"
                                 /\ UNCHANGED <<result, response>>
                            ELSE /\ engine' = o
                                 /\ Settle(Rejected)
                                 /\ UNCHANGED stmts
    /\ UNCHANGED <<request, idpReq, idpRes, authCtx, store, aux>>

\* the promise of all() settles: a rejection goes through errFunc, a result through the
\* route's map, if it has one
DbDone ==
    /\ pc = "db"
    /\ \E o \in AsyncOutcomes :
        LET k == keyOf(request)
            route == routes[k]
            stmt == stmts[Len(stmts)]
            after == IF route.auth THEN insert(store, tableOf[k], stmt) ELSE store
        IN  /\ engine' = o
            /\ IF o = "rejects"
               THEN /\ Settle(Err("InternalDatabase", route.dbMsg \o "<e>"))
                    /\ UNCHANGED store
               ELSE /\ route.auth => stmt.groups > 0
                    /\ rowCount(after) <= MaxRows
                    /\ store' = after
                    /\ \E d \in Durations :
                         IF route.map = "json"
                         THEN Settle(Ok(returnJSONResponse(D1Result(select(k, store), d))))
                         ELSE IF route.map = "created"
                         THEN Settle(Ok(Response(201, Text(route.okText), NoHeaders)))
                         ELSE Settle(Ok(D1Result(<<>>, d)))
    /\ UNCHANGED <<request, trace, idpReq, idpRes, authCtx, body, stmts, aux>>

\* the runtime takes the settled promise of fetch; nothing of the request is kept
Deliver ==
    /\ pc = "done"
    /\ pc' = "idle"
    /\ request' = NoRequest
    /\ trace' = <<>>
    /\ idpReq' = <<>>
    /\ idpRes' = NoIdpRes
    /\ authCtx' = NoAuthCtx
    /\ body' = NoBodyRead
    /\ stmts' = <<>>
    /\ engine' = "idle"
    /\ result' = Pending
    /\ UNCHANGED <<store, aux>>
    /\ response' = Unsettled

\* a client keeps the body of a successful GET /meets to compare a later one with
Remember ==
    /\ pc = "done"
    /\ keyOf(request) = "GET /meets"
    /\ response.settled = "fulfilled"
    /\ response.status = 200
    /\ seen' = [valid |-> TRUE, request |-> request, body |-> response.body,
                store |-> store]
    /\ UNCHANGED <<pc, request, trace, idpReq, idpRes, authCtx, body, stmts, engine, store,
                   result, response, parked, js>>

Next ==
    \/ \E req \in Requests : Receive(req)
    \/ Deliver
    \/ IdpFetch
    \/ IdpJson
    \/ BodyRead
    \/ DbDone

Spec == Init /\ [][Next]_vars

\* the same program over a storage engine whose prepare and bind never throw: its
\* failures are rejections of the promise all() returns
NextD1 == Next /\ engine' \notin {"prepare_throws", "bind_throws"}
SpecD1 == Init /\ [][NextD1]_vars

(***************************************************************************)
(* Two requests in flight. Every variable of a request is a local of its   *)
(* own call of fetch, handler, verifyAuth and the route; the module holds  *)
(* constants only, and env.DB is the one thing the calls share.            *)
(***************************************************************************)
\* a switch that leaves the settled result where it is, as a variable of the module
\* would be
YieldSharedResult ==
    /\ parked' = [pc |-> pc, request |-> request, trace |-> trace, idpReq |-> idpReq,
                  idpRes |-> idpRes, authCtx |-> authCtx, body |-> body, stmts |-> stmts,
                  engine |-> engine, result |-> result, response |-> response]
    /\ pc' = parked.pc
    /\ request' = parked.request
    /\ trace' = parked.trace
    /\ idpReq' = parked.idpReq
    /\ idpRes' = parked.idpRes
    /\ authCtx' = parked.authCtx
    /\ body' = parked.body
    /\ stmts' = parked.stmts
    /\ engine' = parked.engine
    /\ UNCHANGED <<result, response>>
    /\ UNCHANGED <<store, seen, js>>

\* the runtime switches from the request that runs to the other one: each is at a
\* suspension point (or not started, or settled), and each keeps all of its own state
Yield ==
    /\ parked' = [pc |-> pc, request |-> request, trace |-> trace, idpReq |-> idpReq,
                  idpRes |-> idpRes, authCtx |-> authCtx, body |-> body, stmts |-> stmts,
                  engine |-> engine, result |-> result, response |-> response]
    /\ pc' = parked.pc
    /\ request' = parked.request
    /\ trace' = parked.trace
    /\ idpReq' = parked.idpReq
    /\ idpRes' = parked.idpRes
    /\ authCtx' = parked.authCtx
    /\ body' = parked.body
    /\ stmts' = parked.stmts
    /\ engine' = parked.engine
    /\ result' = parked.result
    /\ response' = parked.response
    /\ UNCHANGED <<store, seen, js>>

\* two clients of /records, one of them with a token, a provider that answers with
\* well-formed claims of a verified e-mail, and bodies of one or two records
Bearer_t == Header(<<"B", "e", "a", "r", "e", "r", " ", "t">>)
ConcRequests ==
    {[method |-> "GET", path |-> "/records", auth |-> NoHeader],
     [method |-> "POST", path |-> "/records", auth |-> NoHeader],
     [method |-> "POST", path |-> "/records", auth |-> Bearer_t]}
ConcClaims(a) ==
    /\ a.checked
    /\ Get(a.payload, "aud") = JStr(GOOGLE_CLIENT_ID)
    /\ Get(a.payload, "email_verified") = JStr("true")
    /\ Get(a.payload, "iss") = JStr("accounts.google.com")
    /\ Get(a.payload, "email").t = "string"
    /\ expMillis(a.payload) = 1000
    /\ a.now = 999
ConcBodies ==
    {JArr(<<okRecord>>), JArr(<<okRecord, [okRecord EXCEPT !.f.time = JNum(-2)]>>)}
NextConc ==
    \/ \E req \in ConcRequests : Receive(req)
    \/ Deliver
    \/ IdpFetch
    \/ IdpJson /\ ConcClaims(authCtx')
    \/ BodyRead /\ body'.isJson /\ body'.json \in ConcBodies
    \/ DbDone
    \/ Yield
SpecConc == Init /\ [][NextConc]_vars

(***************************************************************************)
(* POST /records in the responder of worker.js, over the same storage.     *)
(***************************************************************************)
\* the checks of the loop body on one record: TRUE when message stays null
jsRecordOk(r) ==
    /\ IsInt(Get(r, "meet_id"))
    /\ IsInt(Get(r, "swimmer_id"))
    /\ Get(r, "event").t = "string" /\ Get(r, "event").s \in allowedEvents
    /\ Get(r, "type") \in {JStr("individual"), JStr("relay")}
    /\ Get(r, "start") \in {JStr("flat"), JStr("relay")}
    /\ Get(r, "time").t = "number" /\ Get(r, "time").h > 0

\* verifyAuth of worker.js on the provider's payload: the e-mail, or null
jsVerified(payload) ==
    /\ Get(payload, "aud") = JStr(GOOGLE_CLIENT_ID)
    /\ Get(payload, "email_verified") = JStr("true")
    /\ Get(payload, "email").t = "string" /\ Get(payload, "email").s \in allowedEmails

jsColumns == <<"swimmer_id", "meet_id", "event", "type", "time", "start">>

JsEnd(status) == js' = [js EXCEPT !.pc = "done", !.status = status]

\* the responder up to verifyAuth's fetch: no bearer header is null, so 401
JsStart(auth) ==
    /\ pc = "idle"
    /\ js.pc = "idle"
    /\ IF hasBearer(auth)
       THEN js' = [js EXCEPT !.pc = "fetch", !.base = store]
       ELSE js' = [js EXCEPT !.pc = "done", !.base = store, !.status = 401]
    /\ UNCHANGED <<pc, request, trace, idpReq, idpRes, authCtx, body, stmts, engine, store,
                   result, response, seen, parked>>

\* fetch(tokeninfo) settles: a rejection is caught, a response that is not ok returns null
JsFetch ==
    /\ js.pc = "fetch"
    /\ \/ JsEnd(401)
       \/ \E st \in IdpStatuses :
            IF IsOk(st) THEN js' = [js EXCEPT !.pc = "json"] ELSE JsEnd(401)
    /\ UNCHANGED <<pc, request, trace, idpReq, idpRes, authCtx, body, stmts, engine, store,
                   result, response, seen, parked>>

\* googleRes.json() settles and the three checks run
JsJson ==
    /\ js.pc = "json"
    /\ \E json \in IdpPayloads \cup {NotJSON} :
        IF json # NotJSON /\ jsVerified(json)
        THEN js' = [js EXCEPT !.pc = "body"]
        ELSE JsEnd(401)
    /\ UNCHANGED <<pc, request, trace, idpReq, idpRes, authCtx, body, stmts, engine, store,
                   result, response, seen, parked>>

\* request.json() settles: a rejection reaches the outer catch, an array starts the loop
JsBody ==
    /\ js.pc = "body"
    /\ \E json \in RecordBodies \cup {NotJSON} :
        IF json = NotJSON
        THEN JsEnd(500)
        ELSE js' = [js EXCEPT !.pc = "loop", !.records = json.a, !.i = 1]
    /\ UNCHANGED <<pc, request, trace, idpReq, idpRes, authCtx, body, stmts, engine, store,
                   result, response, seen, parked>>

\* one turn of for (let record of records) up to its await: the checks, then the INSERT
\* of this record is issued; past the last record the answer is 201
JsStep ==
    /\ js.pc = "loop"
    /\ IF js.i > Len(js.records)
       THEN JsEnd(201)
       ELSE IF ~jsRecordOk(js.records[js.i])
       THEN JsEnd(400)
       ELSE js' = [js EXCEPT !.pc = "run"]
    /\ UNCHANGED <<pc, request, trace, idpReq, idpRes, authCtx, body, stmts, engine, store,
                   result, response, seen, parked>>

\* run() of this record's INSERT settles: a rejection reaches the outer catch, otherwise
\* the row is stored and the loop goes on
JsRun ==
    /\ js.pc = "run"
    /\ \/ /\ JsEnd(500)
          /\ UNCHANGED store
       \/ /\ rowCount(store) < MaxRows
          /\ store' = [store EXCEPT !["records"] =
                            Append(@, row(Len(@) + 1, jsColumns,
                                          [k \in 1..Len(jsColumns) |->
                                              Get(js.records[js.i], jsColumns[k])]))]
          /\ js' = [js EXCEPT !.pc = "loop", !.i = @ + 1]
    /\ UNCHANGED <<pc, request, trace, idpReq, idpRes, authCtx, body, stmts, engine,
                   result, response, seen, parked>>

\* the response is returned; nothing of the request is kept
JsDeliver ==
    /\ js.pc = "done"
    /\ js' = JsIdle
    /\ UNCHANGED <<pc, request, trace, idpReq, idpRes, authCtx, body, stmts, engine, store,
                   result, response, seen, parked>>

NextJs ==
    \/ \E auth \in AuthHeaders : JsStart(auth)
    \/ JsFetch
    \/ JsJson
    \/ JsBody
    \/ JsStep
    \/ JsRun
    \/ JsDeliver
SpecJs == Init /\ [][NextJs]_vars

\* requests to /meets only, from clients whose tokens the provider vouches for, one of
\* which compares the bodies of its reads
MeetsRequests ==
    {r \in Requests : r.path = "/meets" /\ r.auth \in {NoHeader, Header(<<"B", "e", "a", "r", "e", "r", " ", "t">>)}}
NextMeets ==
    \/ \E req \in MeetsRequests : Receive(req)
    \/ Deliver
    \/ IdpFetch
    \/ IdpJson /\ pc' = "body"
    \/ BodyRead
    \/ DbDone
    \/ Remember
SpecMeets == Init /\ [][NextMeets]_vars

(***************************************************************************)
(* Properties.                                                             *)
(***************************************************************************)
key == keyOf(request)
InsertRoutes == {"POST /meets", "POST /records", "POST /swimmers", "POST /relays"}
WriteRoutes == InsertRoutes \cup {"POST /verify"}
InsertTexts ==
    {"INSERT INTO meets (name, location, date)",
     "INSERT INTO records (meet_id, swimmer_id, event, type, time, start)",
     "INSERT INTO swimmers (name, graduating_year)",
     "INSERT INTO relays (time, type, record_1_id, record_2_id, record_3_id, record_4_id)"}
InsertIssued == \E i \in DOMAIN stmts : stmts[i].sql \in InsertTexts

\* the six checks of the specification on checked claims p at time now (milliseconds);
\* exp is held in halves of a second
AudOk(p) == Get(p, "aud") = JStr(GOOGLE_CLIENT_ID)
EmailVerified(p) == Get(p, "email_verified") = JStr("true")
EmailPresent(p) == Get(p, "email").t = "string"
IssOk(p) ==
    Get(p, "iss") \in {JStr("https://accounts.google.com"), JStr("accounts.google.com")}
NotExpired(p, now) == Get(p, "exp").h * 500 > now
EmailAllowed(p) == Get(p, "email") = JStr("ryanyun2010@gmail.com")

\* C1: a storage INSERT is executed only for a request whose claims passed all of
\* verifyAuth's checks: audience, email_verified, email present, issuer, not expired
\* (exp*1000 > now), email in the allow-list.
C1_InsertOnlyWhenVerified ==
    InsertIssued =>
        /\ authCtx.checked
        /\ AudOk(authCtx.payload) /\ EmailVerified(authCtx.payload)
        /\ EmailPresent(authCtx.payload) /\ IssOk(authCtx.payload)
        /\ NotExpired(authCtx.payload, authCtx.now)
        /\ EmailAllowed(authCtx.payload)

BearerShaped(h) ==
    /\ h.present
    /\ Len(h.chars) >= 7
    /\ SubSeq(h.chars, 1, 7) = <<"B", "e", "a", "r", "e", "r", " ">>

\* C2: on a write route, a request whose Authorization header is absent or does not
\* start with "Bearer " ends in 401 Unauthorized, with no provider call, no body read,
\* no validation and no storage statement for it.
C2_NoBearerIs401First ==
    (key \in WriteRoutes /\ ~BearerShaped(request.auth)) =>
        /\ pc = "done"
        /\ result = Err("Unauthorized", "No Authorization header")
        /\ response.settled = "fulfilled" /\ response.status = 401
        /\ trace = <<>> /\ idpReq = <<>> /\ ~body.read /\ stmts = <<>> /\ engine = "idle"

C2_Witness ==
    /\ pc = "done"
    /\ key = "POST /records"
    /\ request.auth = Header(<<"B", "a", "s", "i", "c", " ", "x">>)
    /\ response.settled = "fulfilled" /\ response.status = 401

\* C3: POST /meets that passed verifyAuth, carried a valid body and whose INSERT
\* succeeded answers 201, as the other write routes do.
C3_MeetsCreated ==
    (pc = "done" /\ key \in InsertRoutes /\ engine = "resolves") =>
        (response.settled = "fulfilled" /\ response.status = 201)

\* C4: every request ends in a response that carries the three fixed
\* Access-Control headers.
C4_CorsOnEveryPath ==
    pc = "done" => (response.settled = "fulfilled" /\ CorsHeaders \subseteq response.headers)

\* C5: an unexpected fault during handling (a throw in handler, a route or a chained
\* callback, or a failure while attaching the headers) ends in a 500 response and never
\* in a rejected promise of fetch.
C5_FaultsBecome500 ==
    (pc = "done" /\ (result.tag = "rejected" \/ (result.tag = "ok" /\ ~result.value.isResponse)))
        => (response.settled = "fulfilled" /\ response.status = 500)

\* C6: every failure of the storage engine, thrown by prepare or bind or rejected by
\* all(), comes out of queryDB as an InternalDatabase error value.
C6_EngineFailureIsInternalDatabase ==
    engine \in {"prepare_throws", "bind_throws", "rejects"} =>
        (result.tag = "err" /\ result.name = "InternalDatabase")

\* C7: when the provider answers with a non-success status, verifyAuth ends in
\* NoResponse and the body of that answer is never parsed or validated as claims.
C7_NonOkIsNoResponse ==
    (idpRes.arrived /\ ~idpRes.ok /\ pc # "idp_json") =>
        (result.tag = "err" /\ result.name = "NoResponse" /\ ~authCtx.checked)

\* C8: claims that pass checks a-d with exp*1000 <= now (equality included) end in
\* Unauthorized("Token expired").
C8_ExpiryIsStrict ==
    (/\ authCtx.checked
     /\ AudOk(authCtx.payload) /\ EmailVerified(authCtx.payload)
     /\ EmailPresent(authCtx.payload) /\ IssOk(authCtx.payload)
     /\ ~NotExpired(authCtx.payload, authCtx.now))
        => result = Err("Unauthorized", "Token expired")

\* the message of the earliest failing check, in the order of the specification
FirstFailure(p, now) ==
    IF ~AudOk(p) THEN "Authorization Token gave Incorrect Audience"
    ELSE IF ~EmailVerified(p)
        THEN "Authentication Token gave an Email which could not be verified"
    ELSE IF ~EmailPresent(p) THEN "Authentication Token did not correspond to an Email"
    ELSE IF ~IssOk(p) THEN "Invalid token issuer"
    ELSE IF ~NotExpired(p, now) THEN "Token expired"
    ELSE IF ~EmailAllowed(p) THEN "Email is unauthorized"
    ELSE ""

\* C9: shape-valid claims that fail one or more of the six checks end in the
\* Unauthorized of the earliest failing check, in the order audience, email_verified,
\* email present, issuer, expiry, allow-list, and in that error alone.
C9_EarliestFailingCheck ==
    (authCtx.checked /\ FirstFailure(authCtx.payload, authCtx.now) # "") =>
        result = Err("Unauthorized", FirstFailure(authCtx.payload, authCtx.now))

StageOrder == <<"idp", "body", "validate", "storage">>
IsPrefix(a, b) == Len(a) <= Len(b) /\ a = SubSeq(b, 1, Len(a))
HasStage(x) == \E i \in DOMAIN trace : trace[i] = x
AuthErrors == {"Unauthorized", "NoResponse", "MalformedResponse"}

\* the bodies of the model that satisfy a write route's schema
ValidBodies(k) ==
    CASE k = "POST /meets" -> {okMeet}
      [] k = "POST /swimmers" -> {okSwimmer}
      [] k = "POST /relays" -> {okRelay}
      [] k = "POST /records" ->
            {b \in RecordBodies : \A i \in DOMAIN b.a : Get(b.a[i], "time").h > 0}
      [] OTHER -> {}

NonPositiveTime(b) ==
    b.t = "array" /\ \E i \in DOMAIN b.a : Get(b.a[i], "time").h <= 0

\* C10: on every write route the stages run in the order provider call, body read,
\* validation, storage statement, each only after the one before succeeded; the first
\* failing stage's error is the final error and no later stage runs.  A record with
\* time <= 0 ends in MalformedRequest with no INSERT; an auth failure leaves the body
\* unread.
C10_StagesInOrder ==
    key \in WriteRoutes =>
        /\ IsPrefix(trace, StageOrder)
        /\ HasStage("body") =>
            /\ authCtx.checked
            /\ AudOk(authCtx.payload) /\ EmailVerified(authCtx.payload)
            /\ IssOk(authCtx.payload) /\ EmailAllowed(authCtx.payload)
            /\ Get(authCtx.payload, "exp").h * 500 >= authCtx.now
        /\ HasStage("validate") => (body.read /\ body.isJson)
        /\ HasStage("storage") => (body.read /\ body.isJson /\ body.json \in ValidBodies(key))
        /\ stmts # <<>> => (HasStage("storage") /\ Len(stmts) = 1)
        /\ (body.read /\ ~body.isJson) =>
            (/\ result = Err("MalformedRequest", "Failed to parse request JSON: <e>")
             /\ trace = <<"idp", "body">>)
        /\ (key = "POST /records" /\ body.read /\ body.isJson /\ NonPositiveTime(body.json)) =>
            (/\ pc = "done" /\ result.tag = "err" /\ result.name = "MalformedRequest"
             /\ trace = <<"idp", "body", "validate">> /\ stmts = <<>>)
        /\ (pc = "done" /\ result.tag = "err") =>
            /\ response.settled = "fulfilled"
            /\ response.body = Text(result.name \o ": " \o result.message)
            /\ result.name \in AuthErrors =>
                (trace \in {<<>>, <<"idp">>} /\ ~body.read /\ stmts = <<>>)
            /\ result.name = "MalformedRequest" =>
                (trace \in {<<"idp", "body">>, <<"idp", "body", "validate">>} /\ stmts = <<>>)
            /\ result.name = "InternalDatabase" => (trace = StageOrder /\ engine = "rejects")

C10_Witness ==
    /\ pc = "done"
    /\ key = "POST /records"
    /\ body.read /\ body.isJson
    /\ body.json = JArr(<<[okRecord EXCEPT !.f.time = JNum(-2)]>>)
    /\ result.tag = "err" /\ result.name = "MalformedRequest"
    /\ trace = <<"idp", "body", "validate">>
    /\ stmts = <<>>

\* the text after VALUES for n records
RECURSIVE Groups(_)
Groups(n) == IF n = 1 THEN "(?, ?, ?, ?, ?, ?)" ELSE Groups(n - 1) \o ", (?, ?, ?, ?, ?, ?)"
RecordColumns == <<"meet_id", "swimmer_id", "event", "type", "time", "start">>

\* C12: POST /records with a batch of N >= 1 valid records issues exactly one INSERT
\* with N value groups of six placeholders and 6N parameters in row-major order:
\* parameters 6i+1..6i+6 are record i's meet_id, swimmer_id, event, type, time, start,
\* the statement's column list.
C12_OneInsertRowMajor ==
    (key = "POST /records" /\ stmts # <<>> /\ Len(body.json.a) >= 1) =>
        LET recs == body.json.a
            n == Len(recs)
        IN  /\ Len(stmts) = 1
            /\ stmts[1].sql = "INSERT INTO records (meet_id, swimmer_id, event, type, time, start)"
            /\ stmts[1].values = Groups(n)
            /\ stmts[1].groups = n
            /\ Len(stmts[1].binds) = 6 * n
            /\ \A i \in 1..n : \A j \in 1..6 :
                    stmts[1].binds[6 * (i - 1) + j] = Get(recs[i], RecordColumns[j])

C12_Witness ==
    /\ pc = "db"
    /\ key = "POST /records"
    /\ engine = "pending"
    /\ body.json = JArr(<<okRecord, okRecord2>>)
    /\ Len(stmts) = 1 /\ Len(stmts[1].binds) = 12

\* C13: a request with method OPTIONS, whatever its path and headers, is answered 204
\* with an empty body, with no provider call, no body read and no storage statement,
\* and the same whether or not the table has a route for its path.
C13_PreflightIs204 ==
    request.method = "OPTIONS" =>
        /\ pc = "done"
        /\ result.tag = "ok"
        /\ response.settled = "fulfilled" /\ response.status = 204
        /\ response.body = NoBody
        /\ trace = <<>> /\ idpReq = <<>> /\ ~body.read /\ stmts = <<>> /\ engine = "idle"

C13_Witness ==
    /\ pc = "done"
    /\ request.method = "OPTIONS" /\ request.path = "/meets"
    /\ request.auth = NoHeader
    /\ response.settled = "fulfilled" /\ response.status = 204

TableKeys ==
    {"GET /", "GET /meets", "POST /meets", "GET /records", "POST /records", "GET /swimmers",
     "POST /swimmers", "GET /recent_meets", "POST /verify", "POST /relays"}

\* C14: a request whose method is not OPTIONS and whose key "METHOD /path" is not one
\* of the ten keys of the table (a trailing slash, another letter case or an undeclared
\* method included) ends in NotFound (404) whatever its Authorization header, with no
\* provider call, no body read and no storage statement.
MethodAndPath == request.method \o " " \o request.path
C14_UnknownKeyIs404 ==
    (request.method \notin {"", "OPTIONS"} /\ MethodAndPath \notin TableKeys) =>
        /\ pc = "done"
        /\ result = Err("NotFound", "Endpoint \"" \o MethodAndPath \o "\" not found")
        /\ response.settled = "fulfilled" /\ response.status = 404
        /\ trace = <<>> /\ idpReq = <<>> /\ ~body.read /\ stmts = <<>> /\ engine = "idle"

C14_Witness ==
    /\ pc = "done"
    /\ MethodAndPath = "POST /meets/"
    /\ BearerShaped(request.auth)
    /\ response.settled = "fulfilled" /\ response.status = 404

emptyNameMeet == [okMeet EXCEPT !.f.name = JStr("")]
emptyNameHalfDateMeet == [okMeet EXCEPT !.f.name = JStr(""), !.f.date = JNum(41)]

\* the number of violated fields of a body of the model sent to POST /meets or
\* POST /records
Count(b) == IF b THEN 1 ELSE 0
ViolatedFields(k, json) ==
    IF k = "POST /meets" /\ json \in MeetBodies
    THEN Count(Get(json, "name") = JStr("")) + Count(Get(json, "location") = JStr(""))
            + Count(Get(json, "date").h % 2 # 0)
    ELSE IF k = "POST /records" /\ json \in RecordBodies
    THEN Cardinality({i \in DOMAIN json.a : Get(json.a[i], "time").h <= 0})
    ELSE 0

\* C18: a body that violates its schema in k fields is rejected with one error whose
\* message has one "<field-path>: <reason>" entry for each of the k fields, joined
\* with "; ": a meet with name "" is rejected with a message that names name, one with
\* name "" and a non-integer date with a message that names both.
C18_EveryViolationReported ==
    (pc = "done" /\ body.read /\ body.isJson) =>
        /\ ViolatedFields(key, body.json) > 0 =>
            /\ result.tag = "err" /\ result.name = "MalformedRequest"
            /\ Len(issuesOf(routes[key].schema, body.json)) = ViolatedFields(key, body.json)
            /\ result.message =
                routes[key].zodMsg \o join(issuesOf(routes[key].schema, body.json), "; ")
        /\ (key = "POST /meets" /\ body.json = emptyNameMeet) =>
            result.message = "Given invalid meet data: name: Name is required"
        /\ (key = "POST /meets" /\ body.json = emptyNameHalfDateMeet) =>
            result.message =
                "Given invalid meet data: name: Name is required; date: Date must be an integer"

C18_Witness ==
    /\ pc = "done"
    /\ key = "POST /meets"
    /\ body.read /\ body.isJson /\ body.json = emptyNameHalfDateMeet
    /\ result.tag = "err"
    /\ result.message =
        "Given invalid meet data: name: Name is required; date: Date must be an integer"

\* C19: the token sent to the provider is the whole of the Authorization header after
\* its 7-character prefix "Bearer ", also when that remainder holds spaces or is empty.
C19_TokenIsRemainder ==
    idpReq # <<>> =>
        idpReq[1] = SubSeq(request.auth.chars, 8, Len(request.auth.chars))

\* C15: a successful GET on a read route answers 200 with the JSON array of the rows
\* the query returned as its body, not an object around them
ReadRoutes == {"GET /", "GET /meets", "GET /recent_meets", "GET /records", "GET /swimmers"}
C15_ReadBodyIsRowArray ==
    (pc = "done" /\ MethodAndPath \in ReadRoutes /\ engine = "resolves") =>
        /\ response.settled = "fulfilled"
        /\ response.status = 200
        /\ response.body = Json(JArr(select(MethodAndPath, store)))

\* C16: a GET /meets that repeats an earlier one, the stored rows being the same, gets
\* the same body
C16_RepeatedReadSameBody ==
    (/\ pc = "done" /\ MethodAndPath = "GET /meets"
     /\ response.settled = "fulfilled" /\ response.status = 200
     /\ seen.valid /\ seen.request = request /\ seen.store = store) =>
        response.body = seen.body

\* C17: no step removes or changes a stored row, and a step that ends a request without
\* a 2xx answer, or ends a GET, an OPTIONS or a POST /verify, leaves the store as it was
Failing(r) == r.settled = "rejected" \/ (r.settled = "fulfilled" /\ r.status >= 400)
ReadOnly(req) == req.method \in {"GET", "OPTIONS"} \/ keyOf(req) = "POST /verify"
C17_StoreOnlyGrows ==
    [][/\ \A t \in Tables : IsPrefix(store[t], store'[t])
       /\ (pc # "done" /\ pc' = "done" /\ (Failing(response') \/ ReadOnly(request'))) =>
                store' = store]_vars

\* C11: a POST /records that does not end in 201 has stored no record of its batch, in
\* the route of worker.ts and in the loop of worker.js
Is201(r) == r.settled = "fulfilled" /\ r.status = 201
C11_BatchAllOrNothing ==
    [][/\ (pc # "done" /\ pc' = "done" /\ keyOf(request') = "POST /records"
            /\ ~Is201(response')) => store' = store
       /\ (js'.pc = "done" /\ js'.status # 201) => store' = js'.base]_vars

\* C20: with two requests in flight, whatever the interleaving, the request that runs
\* has the outcome its own inputs give: nothing is settled before its own steps settle
\* it, the token sent is the one of its own header, a failing check of its own claims
\* is its answer, a body is read and a statement issued only after its own claims
\* passed, the statement is the one of its own body, and the response is the rendering
\* of its own result
OwnClaimsVerdict == businessChecks(authCtx.payload, authCtx.now)
OwnParsed == zodParseWith(routes[key].schema, body.json)
C20_OutcomeIsOwn ==
    /\ pc # "done" => result = Pending /\ response = Unsettled
    /\ pc = "done" => result # Pending /\ response \in boundary(result)
    /\ idpReq # <<>> => hasBearer(request.auth) /\ idpReq = <<tokenOf(request.auth)>>
    /\ authCtx.checked => idpReq # <<>> /\ idpRes # NoIdpRes
    /\ (authCtx.checked /\ OwnClaimsVerdict # "") =>
            pc = "done" /\ result = Err("Unauthorized", OwnClaimsVerdict)
    /\ body.read => authCtx.checked /\ OwnClaimsVerdict = ""
    /\ (body.read /\ body.isJson /\ ~OwnParsed.success) =>
            result = Err("MalformedRequest", routes[key].zodMsg \o OwnParsed.msg)
    /\ InsertIssued =>
            /\ body.read /\ body.isJson /\ OwnParsed.success
            /\ stmts = <<statementOf(key, OwnParsed.data)>>
    /\ (pc = "done" /\ engine = "rejects") =>
            result = Err("InternalDatabase", routes[key].dbMsg \o "<e>")
    /\ (pc = "done" /\ engine = "resolves" /\ key = "POST /records") =>
            result = Ok(Response(201, Text("Records sucessfully added"), NoHeaders))
C20_Witness ==
    /\ pc = "done" /\ InsertIssued /\ Is201(response)
    /\ parked.pc = "idp_json" /\ parked.idpReq = idpReq

\* C21: the INSERT that POST /records issues has as many value groups as the batch has
\* records and six parameters a group, the batch of length 0 included: the empty array
\* is not refused by validation, queryDB is called for it, and the statement handed to
\* the engine has zero value groups and zero parameters
GroupsText(n) == IF n = 0 THEN "" ELSE Groups(n)
C21_GroupsEqualBatchLength ==
    /\ (key = "POST /records" /\ stmts # <<>>) =>
            /\ Len(stmts) = 1
            /\ stmts[1].groups = Len(body.json.a)
            /\ stmts[1].values = GroupsText(Len(body.json.a))
            /\ Len(stmts[1].binds) = 6 * Len(body.json.a)
    /\ (key = "POST /records" /\ body.read /\ body.isJson /\ body.json = JArr(<<>>)) =>
            /\ HasStage("validate") /\ HasStage("storage")
            /\ ~(result.tag = "err" /\ result.name = "MalformedRequest")
            /\ engine # "idle"
            /\ engine \notin {"prepare_throws", "bind_throws"} =>
                    /\ Len(stmts) = 1
                    /\ stmts[1].groups = 0
                    /\ stmts[1].binds = <<>>
C21_Witness ==
    /\ pc = "db"
    /\ key = "POST /records"
    /\ body.read /\ body.isJson /\ body.json = JArr(<<>>)
    /\ engine = "pending"
    /\ Len(stmts) = 1 /\ stmts[1].groups = 0 /\ stmts[1].binds = <<>>

====
